---- MODULE Spec2Model ----
(***************************************************************************)
(* Model of buildpub (src/buildpub/main.py): the command-line entry point  *)
(* main, the orchestrator run_pipeline with its steps login_to_docker,     *)
(* clone_repo, build_image and push_image, and the two pure helpers        *)
(* infer_image_name and the auto-version block of main.                    *)
(*                                                                         *)
(* Python strings are sequences of one-character strings.  None is the     *)
(* one-element sequence <<"None">>, whose element is not a character, so   *)
(* that it is distinct from every string, the empty string included.       *)
(***************************************************************************)
EXTENDS Integers, Sequences, FiniteSets, TLC

VARIABLES
    pc,           \* position of the process: idle, a step of run_pipeline, done
    entry,        \* "none", "main" (command line) or "direct" (library call of run_pipeline)
    repo_url,     \* run_pipeline parameter
    local_path,   \* run_pipeline parameter
    image_name,   \* run_pipeline parameter
    username,     \* run_pipeline parameter
    password,     \* run_pipeline parameter
    tag,          \* run_pipeline parameter
    temp_dir,     \* local of run_pipeline (line 129)
    context_path, \* local of run_pipeline (line 130)
    calls,        \* sequence of the collaborator invocations made so far
    outcome,      \* per step of run_pipeline: how it ended
    dockerfile,   \* what os.path.exists said in build_image: "unchecked", "found", "missing"
    buildContext, \* the path= argument handed to client.images.build
    consumed,     \* chunks of the push stream taken by the for loop so far
    relayed,      \* log lines written by push_image for those chunks
    mkdtempLog,   \* directories created by tempfile.mkdtemp
    rmtreeLog,    \* directories removed by shutil.rmtree
    result,       \* what run_pipeline returned: "none", "True", "False", "raised"
    exitCode,     \* process exit status of main, -1 while running
    url,          \* input of infer_image_name under SpecName
    shape,        \* how url was put together under SpecName
    inferred,     \* result of infer_image_name under SpecName
    tags,         \* current_repo_obj.tags under SpecVersion
    newTag        \* tag after the auto-version block under SpecVersion

vars == <<pc, entry, repo_url, local_path, image_name, username, password, tag,
          temp_dir, context_path, calls, outcome, dockerfile, buildContext, consumed,
          relayed, mkdtempLog, rmtreeLog, result, exitCode,
          url, shape, inferred, tags, newTag>>

pipeVars == <<pc, entry, repo_url, local_path, image_name, username, password, tag,
              temp_dir, context_path, calls, outcome, dockerfile, buildContext,
              consumed, relayed, mkdtempLog, rmtreeLog, result, exitCode>>

nameVars == <<url, shape, inferred>>

versionVars == <<tags, newTag>>

(***************************************************************************)
(* Bounds                                                                  *)
(***************************************************************************)
MaxChunks == 3

MaxSegLen == 4

MaxUrlLen == 5

MaxTagLen == 7

MaxTags == 2

MaxTime == 1

(***************************************************************************)
(* Python values and string primitives                                     *)
(***************************************************************************)
None == <<"None">>

Truthy(x) == x # None /\ x # <<>>

StrUpTo(alphabet, n) == UNION {[1..k -> alphabet] : k \in 0..n}

EndsWith(s, suffix) ==
    /\ Len(s) >= Len(suffix)
    /\ SubSeq(s, Len(s) - Len(suffix) + 1, Len(s)) = suffix

StartsWith(s, prefix) ==
    /\ Len(s) >= Len(prefix)
    /\ SubSeq(s, 1, Len(prefix)) = prefix

Contains(s, sub) ==
    \E i \in 1..(Len(s) - Len(sub) + 1) : SubSeq(s, i, i + Len(sub) - 1) = sub

\* str.split(sep) for a one-character separator: always at least one part
RECURSIVE Split(_, _)
Split(s, sep) ==
    IF \A i \in 1..Len(s) : s[i] # sep
    THEN <<s>>
    ELSE LET i == CHOOSE j \in 1..Len(s) :
                      s[j] = sep /\ \A k \in 1..(j - 1) : s[k] # sep
         IN <<SubSeq(s, 1, i - 1)>> \o Split(SubSeq(s, i + 1, Len(s)), sep)

\* str.split(sep, 1)
SplitOnce(s, sep) ==
    IF \A i \in 1..Len(s) : s[i] # sep
    THEN <<s>>
    ELSE LET i == CHOOSE j \in 1..Len(s) :
                      s[j] = sep /\ \A k \in 1..(j - 1) : s[k] # sep
         IN <<SubSeq(s, 1, i - 1), SubSeq(s, i + 1, Len(s))>>

\* sep.join(parts)
RECURSIVE Join(_, _)
Join(parts, sep) ==
    IF Len(parts) = 0 THEN <<>>
    ELSE IF Len(parts) = 1 THEN parts[1]
    ELSE parts[1] \o <<sep>> \o Join(Tail(parts), sep)

\* str.lstrip(c) for a one-character set: drops every leading c
RECURSIVE LStrip(_, _)
LStrip(s, c) ==
    IF Len(s) > 0 /\ s[1] = c THEN LStrip(Tail(s), c) ELSE s

Digits == <<"0", "1", "2", "3", "4", "5", "6", "7", "8", "9">>

IsDigit(c) == \E d \in 1..10 : Digits[d] = c

DigitVal(c) == (CHOOSE d \in 1..10 : Digits[d] = c) - 1

\* int(s) succeeds (no ValueError), for strings of the characters modelled
IsInt(s) == Len(s) > 0 /\ \A i \in 1..Len(s) : IsDigit(s[i])

\* int(s) for a string of decimal digits
RECURSIVE ParseInt(_)
ParseInt(s) ==
    IF Len(s) = 0 THEN 0
    ELSE 10 * ParseInt(SubSeq(s, 1, Len(s) - 1)) + DigitVal(s[Len(s)])

\* str(n) for n >= 0
RECURSIVE IntToStr(_)
IntToStr(n) ==
    IF n < 10 THEN <<Digits[n + 1]>>
    ELSE IntToStr(n \div 10) \o <<Digits[(n % 10) + 1]>>

(***************************************************************************)
(* infer_image_name                                                        *)
(***************************************************************************)
DotGit == <<".", "g", "i", "t">>

SchemeSep == <<":", "/", "/">>

infer_image_name_keepgit(u) ==
    IF Contains(u, <<":">>) /\ ~Contains(u, SchemeSep)
    THEN SplitOnce(u, ":")[2]
    ELSE LET parts == Split(u, "/")
         IN IF Len(parts) >= 2
            THEN parts[Len(parts) - 1] \o <<"/">> \o parts[Len(parts)]
            ELSE None

infer_image_name_whole(u) ==
    LET stripped == IF EndsWith(u, DotGit) THEN SubSeq(u, 1, Len(u) - 4) ELSE u
    IN IF Contains(stripped, <<":">>) /\ ~Contains(stripped, SchemeSep)
       THEN SplitOnce(stripped, ":")[2]
       ELSE LET parts == Split(stripped, "/")
            IN IF Len(parts) >= 2
               THEN parts[Len(parts) - 1] \o <<"/">> \o parts[Len(parts)]
               ELSE stripped

infer_image_name(u) ==
    LET stripped == IF EndsWith(u, DotGit) THEN SubSeq(u, 1, Len(u) - 4) ELSE u
    IN IF Contains(stripped, <<":">>) /\ ~Contains(stripped, SchemeSep)
       THEN SplitOnce(stripped, ":")[2]
       ELSE LET parts == Split(stripped, "/")
            IN IF Len(parts) >= 2
               THEN parts[Len(parts) - 1] \o <<"/">> \o parts[Len(parts)]
               ELSE None

(***************************************************************************)
(* The auto-version block of main                                          *)
(***************************************************************************)
\* sorted(seq, key=time): stable insertion sort
RECURSIVE InsertByTime(_, _)
InsertByTime(sorted, t) ==
    IF Len(sorted) = 0 THEN <<t>>
    ELSE IF sorted[Len(sorted)].time <= t.time THEN Append(sorted, t)
    ELSE Append(InsertByTime(SubSeq(sorted, 1, Len(sorted) - 1), t), sorted[Len(sorted)])

RECURSIVE SortedByTime(_)
SortedByTime(ts) ==
    IF Len(ts) = 0 THEN <<>>
    ELSE InsertByTime(SortedByTime(SubSeq(ts, 1, Len(ts) - 1)), ts[Len(ts)])

LatestTag(ts) == SortedByTime(ts)[Len(ts)].name

V001 == <<"v", "0", ".", "0", ".", "1">>

\* lines 254-268: the bump of latest_tag, or the tag unchanged
BumpTag(latest_tag, oldTag) ==
    LET version_str == LStrip(latest_tag, "v")
        parts == Split(version_str, ".")
        n == Len(parts)
    IN IF n >= 3
       THEN IF IsInt(parts[n])
            THEN LET new_version ==
                         Join([parts EXCEPT ![n] = IntToStr(ParseInt(parts[n]) + 1)], ".")
                 IN IF StartsWith(latest_tag, <<"v">>)
                    THEN <<"v">> \o new_version
                    ELSE new_version
            ELSE oldTag
       ELSE oldTag

\* lines 246-275: hasRepo is the truth of current_repo_obj
AutoVersion(oldTag, hasRepo, ts) ==
    IF hasRepo
    THEN IF Len(ts) > 0 THEN BumpTag(LatestTag(ts), oldTag) ELSE V001
    ELSE oldTag

(***************************************************************************)
(* Values of the pipeline                                                  *)
(***************************************************************************)
Pending == <<"pending">>

CWD == <<".">>

TMP == <<"/", "t", "m", "p">>

DefaultTag == <<"l", "a", "t", "e", "s", "t">>

Steps == {"connect", "login", "context", "build", "push"}

NoOutcome == [s \in Steps |-> "none"]

\* a decoded chunk of the push stream: which of the keys 'status' and 'error' it has
Chunks == [status : BOOLEAN, error : BOOLEAN]

RepoArgs == {None, <<>>, <<"o", "/", "r">>, <<"h", ":">>, <<"r">>}

ImageArgs == {None, <<>>, <<"i">>}

UserArgs == {None, <<>>, <<"u">>}

PassArgs == {None, <<>>, <<"p">>}

PathArgs == {None, <<>>, CWD}

\* the working directory of main: not a git repository, one without a remote,
\* or one whose remote has the given URL
CwdStates ==
    {[kind |-> "invalid", remote |-> <<>>], [kind |-> "noremote", remote |-> <<>>]}
        \cup {[kind |-> "remote", remote |-> r] : r \in {<<"o", "/", "r">>, <<"r">>}}

MainTagLists ==
    {<<>>, <<[name |-> <<"v", "1", ".", "2", ".", "9">>, time |-> 0]>>}

(***************************************************************************)
(* Initial state: nothing has run                                          *)
(***************************************************************************)
PipeIdle ==
    /\ pc = "idle"
    /\ entry = "none"
    /\ repo_url = None
    /\ local_path = None
    /\ image_name = None
    /\ username = None
    /\ password = None
    /\ tag = DefaultTag
    /\ temp_dir = None
    /\ context_path = None
    /\ calls = <<>>
    /\ outcome = NoOutcome
    /\ dockerfile = "unchecked"
    /\ buildContext = None
    /\ consumed = <<>>
    /\ relayed = <<>>
    /\ mkdtempLog = <<>>
    /\ rmtreeLog = <<>>
    /\ result = "none"
    /\ exitCode = -1

NameIdle ==
    /\ url = <<>>
    /\ shape = [kind |-> "none", owner |-> <<>>, repo |-> <<>>]
    /\ inferred = Pending

VersionIdle ==
    /\ tags = <<>>
    /\ newTag = Pending

Init == PipeIdle /\ NameIdle /\ VersionIdle

(***************************************************************************)
(* main: resolution of the arguments, then the call of run_pipeline        *)
(***************************************************************************)
main ==
    /\ pc = "idle"
    /\ \E repoArg \in RepoArgs, imageArg \in ImageArgs, cwd \in CwdStates,
          auto \in BOOLEAN, ts \in MainTagLists,
          argU \in UserArgs, envU \in UserArgs, argP \in PassArgs, envP \in PassArgs :
          LET useCwd == ~Truthy(repoArg)
              image1 == IF useCwd /\ cwd.kind = "remote" /\ ~Truthy(imageArg)
                        THEN infer_image_name(cwd.remote)
                        ELSE imageArg
              image2 == IF ~Truthy(image1) /\ Truthy(repoArg)
                        THEN infer_image_name(repoArg)
                        ELSE image1
              newtag == IF auto THEN AutoVersion(DefaultTag, useCwd, ts) ELSE DefaultTag
          IN IF (useCwd /\ cwd.kind = "invalid") \/ ~Truthy(image2)
             THEN /\ pc' = "done"
                  /\ exitCode' = 1
                  /\ UNCHANGED <<repo_url, local_path, image_name, username, password, tag>>
             ELSE /\ pc' = "validate"
                  /\ repo_url' = repoArg
                  /\ local_path' = IF useCwd THEN CWD ELSE None
                  /\ image_name' = image2
                  /\ username' = IF Truthy(argU) THEN argU ELSE envU
                  /\ password' = IF Truthy(argP) THEN argP ELSE envP
                  /\ tag' = newtag
                  /\ UNCHANGED exitCode
    /\ entry' = "main"
    /\ UNCHANGED <<temp_dir, context_path, calls, outcome, dockerfile, buildContext, consumed,
                   relayed, mkdtempLog, rmtreeLog, result>>
    /\ UNCHANGED <<nameVars, versionVars>>

\* a caller other than main invokes run_pipeline with arguments of its own
run_pipeline ==
    /\ pc = "idle"
    /\ \E r \in RepoArgs, l \in PathArgs, i \in ImageArgs, u \in UserArgs, p \in PassArgs :
          /\ repo_url' = r
          /\ local_path' = l
          /\ image_name' = i
          /\ username' = u
          /\ password' = p
    /\ pc' = "validate"
    /\ entry' = "direct"
    /\ UNCHANGED <<tag, temp_dir, context_path, calls, outcome, dockerfile, buildContext, consumed,
                   relayed, mkdtempLog, rmtreeLog, result, exitCode>>
    /\ UNCHANGED <<nameVars, versionVars>>

(***************************************************************************)
(* run_pipeline, step by step                                              *)
(***************************************************************************)
\* a return or an exception inside the try block: control passes to finally
Leave(r) ==
    /\ result' = r
    /\ pc' = "finally"

\* lines 125-130
Validate ==
    /\ pc = "validate"
    /\ IF ~Truthy(image_name)
       THEN /\ result' = "False"
            /\ pc' = "returned"
            /\ UNCHANGED <<temp_dir, context_path>>
       ELSE /\ temp_dir' = None
            /\ context_path' = local_path
            /\ pc' = "connect"
            /\ UNCHANGED result
    /\ UNCHANGED <<entry, repo_url, local_path, image_name, username, password, tag,
                   calls, outcome, dockerfile, buildContext, consumed, relayed, mkdtempLog,
                   rmtreeLog, exitCode>>
    /\ UNCHANGED <<nameVars, versionVars>>

\* lines 134-139: docker.from_env(), every Exception caught
SetupClient ==
    /\ pc = "connect"
    /\ calls' = Append(calls, "from_env")
    /\ \E o \in {"ok", "fail"} :
          /\ outcome' = [outcome EXCEPT !["connect"] = o]
          /\ IF o = "ok"
             THEN pc' = "login" /\ UNCHANGED result
             ELSE Leave("False")
    /\ UNCHANGED <<entry, repo_url, local_path, image_name, username, password, tag,
                   temp_dir, context_path, dockerfile, buildContext, consumed, relayed, mkdtempLog,
                   rmtreeLog, exitCode>>
    /\ UNCHANGED <<nameVars, versionVars>>

LoginSkipped_both(u, p) == ~Truthy(u) /\ ~Truthy(p)

\* line 105
LoginSkipped(u, p) == ~Truthy(u) \/ ~Truthy(p)

\* lines 103-116 and 142-143: client.login, only APIError caught
login_to_docker ==
    /\ pc = "login"
    /\ IF LoginSkipped(username, password)
       THEN /\ outcome' = [outcome EXCEPT !["login"] = "skipped"]
            /\ pc' = "context"
            /\ UNCHANGED <<calls, result>>
       ELSE /\ calls' = Append(calls, "login")
            /\ \E o \in {"ok", "fail", "raise"} :
                  /\ outcome' = [outcome EXCEPT !["login"] = o]
                  /\ CASE o = "ok" -> pc' = "context" /\ UNCHANGED result
                       [] o = "fail" -> Leave("False")
                       [] o = "raise" -> Leave("raised")
    /\ UNCHANGED <<entry, repo_url, local_path, image_name, username, password, tag,
                   temp_dir, context_path, dockerfile, buildContext, consumed, relayed, mkdtempLog,
                   rmtreeLog, exitCode>>
    /\ UNCHANGED <<nameVars, versionVars>>

NeedsClone_always(cp) == TRUE

\* line 146
NeedsClone(cp) == ~Truthy(cp)

\* lines 146-156 and 11-19: mkdtemp, then Repo.clone_from with every Exception caught
PrepareContext ==
    /\ pc = "context"
    /\ IF NeedsClone(context_path)
       THEN IF ~Truthy(repo_url)
            THEN /\ outcome' = [outcome EXCEPT !["context"] = "nosource"]
                 /\ Leave("False")
                 /\ UNCHANGED <<temp_dir, context_path, calls, mkdtempLog>>
            ELSE /\ temp_dir' = TMP
                 /\ context_path' = TMP
                 /\ mkdtempLog' = Append(mkdtempLog, TMP)
                 /\ calls' = calls \o <<"mkdtemp", "clone">>
                 /\ \E o \in {"ok", "fail"} :
                       /\ outcome' = [outcome EXCEPT !["context"] = o]
                       /\ IF o = "ok"
                          THEN pc' = "build" /\ UNCHANGED result
                          ELSE Leave("False")
       ELSE /\ outcome' = [outcome EXCEPT !["context"] = "local"]
            /\ pc' = "build"
            /\ UNCHANGED <<temp_dir, context_path, calls, mkdtempLog, result>>
    /\ UNCHANGED <<entry, repo_url, local_path, image_name, username, password, tag,
                   dockerfile, buildContext, consumed, relayed, rmtreeLog, exitCode>>
    /\ UNCHANGED <<nameVars, versionVars>>

DockerfileMissing_never(exists) == FALSE

\* lines 26-27: os.path.exists of the joined path
DockerfileMissing(exists) == ~exists

BuildSucceeded_always(o) == TRUE

\* lines 31-55: the try block returns True unless BuildError or APIError is caught
BuildSucceeded(o) == o = "ok"

\* lines 21-55 and 159-161: client.images.build, BuildError and APIError caught
build_image ==
    /\ pc = "build"
    /\ \E exists \in BOOLEAN :
          /\ dockerfile' = IF exists THEN "found" ELSE "missing"
          /\ IF DockerfileMissing(exists)
             THEN /\ outcome' = [outcome EXCEPT !["build"] = "nodockerfile"]
                  /\ Leave("False")
                  /\ UNCHANGED <<calls, buildContext>>
             ELSE /\ calls' = Append(calls, "build")
                  /\ buildContext' = context_path
                  /\ \E o \in {"ok", "fail", "raise"} :
                        /\ outcome' = [outcome EXCEPT !["build"] = o]
                        /\ IF o = "raise" THEN Leave("raised")
                           ELSE IF BuildSucceeded(o)
                           THEN pc' = "push" /\ UNCHANGED result
                           ELSE Leave("False")
    /\ UNCHANGED <<entry, repo_url, local_path, image_name, username, password, tag,
                   temp_dir, context_path, consumed, relayed, mkdtempLog, rmtreeLog,
                   exitCode>>
    /\ UNCHANGED <<nameVars, versionVars>>

\* lines 63 and 73-75: client.images.push(..., stream=True), only APIError caught
push_image ==
    /\ pc = "push"
    /\ calls' = Append(calls, "push")
    /\ \E o \in {"stream", "fail", "raise"} :
          CASE o = "stream" -> pc' = "pushing" /\ UNCHANGED <<outcome, result>>
            [] o = "fail" -> outcome' = [outcome EXCEPT !["push"] = "fail"] /\ Leave("False")
            [] o = "raise" -> outcome' = [outcome EXCEPT !["push"] = "raise"] /\ Leave("raised")
    /\ UNCHANGED <<entry, repo_url, local_path, image_name, username, password, tag,
                   temp_dir, context_path, dockerfile, buildContext, consumed, relayed, mkdtempLog,
                   rmtreeLog, exitCode>>
    /\ UNCHANGED <<nameVars, versionVars>>

ChunkAborts_never(chunk) == FALSE

\* line 67
ChunkAborts(chunk) == chunk.error

\* lines 65-68: the lines logged for the n-th chunk
ChunkLines(chunk, n) ==
    (IF chunk.status THEN <<[line |-> "status", chunk |-> n]>> ELSE <<>>)
        \o (IF chunk.error THEN <<[line |-> "error", chunk |-> n]>> ELSE <<>>)

\* lines 64-75 and 164-167: one turn of the for loop over push_logs, or its end
PushChunk ==
    /\ pc = "pushing"
    /\ \/ /\ Len(consumed) < MaxChunks
          /\ \E chunk \in Chunks :
                /\ consumed' = Append(consumed, chunk)
                /\ relayed' = relayed \o ChunkLines(chunk, Len(consumed) + 1)
                /\ IF ChunkAborts(chunk)
                   THEN /\ outcome' = [outcome EXCEPT !["push"] = "fail"]
                        /\ Leave("False")
                   ELSE UNCHANGED <<outcome, result, pc>>
       \/ /\ outcome' = [outcome EXCEPT !["push"] = "ok"]
          /\ relayed' = Append(relayed, [line |-> "success", chunk |-> Len(consumed)])
          /\ Leave("True")
          /\ UNCHANGED consumed
       \/ /\ \E o \in {"fail", "raise"} :
                /\ outcome' = [outcome EXCEPT !["push"] = o]
                /\ Leave(IF o = "fail" THEN "False" ELSE "raised")
          /\ UNCHANGED <<consumed, relayed>>
    /\ UNCHANGED <<entry, repo_url, local_path, image_name, username, password, tag,
                   temp_dir, context_path, calls, dockerfile, buildContext, mkdtempLog, rmtreeLog,
                   exitCode>>
    /\ UNCHANGED <<nameVars, versionVars>>

CleanupDirs_onsuccess(td, r) == IF Truthy(td) /\ r = "True" THEN <<td>> ELSE <<>>

\* lines 171-173: the directories handed to shutil.rmtree; r is the pending result
CleanupDirs(td, r) == IF Truthy(td) THEN <<td>> ELSE <<>>

\* lines 169-173
Cleanup ==
    /\ pc = "finally"
    /\ rmtreeLog' = rmtreeLog \o CleanupDirs(temp_dir, result)
    /\ calls' = calls \o [i \in 1..Len(CleanupDirs(temp_dir, result)) |-> "rmtree"]
    /\ pc' = "returned"
    /\ UNCHANGED <<entry, repo_url, local_path, image_name, username, password, tag,
                   temp_dir, context_path, outcome, dockerfile, buildContext, consumed, relayed,
                   mkdtempLog, result, exitCode>>
    /\ UNCHANGED <<nameVars, versionVars>>

\* lines 293-307: exit status 1 on failure or on an uncaught exception
Exit ==
    /\ pc = "returned"
    /\ entry = "main"
    /\ exitCode' = IF result = "True" THEN 0 ELSE 1
    /\ pc' = "done"
    /\ UNCHANGED <<entry, repo_url, local_path, image_name, username, password, tag,
                   temp_dir, context_path, calls, outcome, dockerfile, buildContext, consumed,
                   relayed, mkdtempLog, rmtreeLog, result>>
    /\ UNCHANGED <<nameVars, versionVars>>

Next ==
    \/ main
    \/ run_pipeline
    \/ Validate
    \/ SetupClient
    \/ login_to_docker
    \/ PrepareContext
    \/ build_image
    \/ push_image
    \/ PushChunk
    \/ Cleanup
    \/ Exit

Spec == Init /\ [][Next]_vars

\* the run is over: run_pipeline has returned or raised, or main has exited
Terminated == pc \in {"returned", "done"}

Count(seq, x) == Cardinality({i \in 1..Len(seq) : seq[i] = x})

(***************************************************************************)
(* infer_image_name on its own: SpecName                                   *)
(***************************************************************************)
SegAlphabet == {"r", ".", "g", "i", "t"}

UrlAlphabet == {"a", "/", ":", ".", "g", "i", "t"}

\* a path segment: not empty, and not itself ending in .git
Segments(n) == {s \in StrUpTo(SegAlphabet, n) : Len(s) > 0 /\ ~EndsWith(s, DotGit)}

Owners == {<<"o">>, <<"o", ".", "r">>}

Schemes == {<<"h", "t", "t", "p", "s">>, <<"s", "s", "h">>}

Hosts == {<<"h">>, <<"u", "@", "h", ":", "2", "2">>}

GitAt == <<"g", "i", "t", "@", "h">>

Suffixes == {<<>>, DotGit}

InitName ==
    /\ PipeIdle
    /\ VersionIdle
    /\ inferred = Pending
    /\ \/ \E scheme \in Schemes, host \in Hosts, owner \in Owners,
             repo \in Segments(MaxSegLen), suffix \in Suffixes :
             /\ url = scheme \o SchemeSep \o host \o <<"/">> \o owner \o <<"/">> \o repo \o suffix
             /\ shape = [kind |-> "http", owner |-> owner, repo |-> repo]
       \/ \E owner \in Owners, repo \in Segments(MaxSegLen), suffix \in Suffixes :
             /\ url = GitAt \o <<":">> \o owner \o <<"/">> \o repo \o suffix
             /\ shape = [kind |-> "ssh", owner |-> owner, repo |-> repo]
       \/ /\ url \in StrUpTo(UrlAlphabet, MaxUrlLen)
          /\ shape = [kind |-> "free", owner |-> <<>>, repo |-> <<>>]

InferName ==
    /\ inferred = Pending
    /\ inferred' = infer_image_name(url)
    /\ UNCHANGED <<url, shape>>
    /\ UNCHANGED <<pipeVars, versionVars>>

NextName == InferName

SpecName == InitName /\ [][NextName]_vars

(***************************************************************************)
(* The auto-version block on its own: SpecVersion                          *)
(***************************************************************************)
TagAlphabet == {"v", "0", "9", "."}

TagNames(n) == StrUpTo(TagAlphabet, n) \ {<<>>}

SmallTags == {<<"v", "9", ".", "9", ".", "9">>, <<"0", ".", "9">>}

TagEntries(names) == [name : names, time : 0..MaxTime]

InsertAt(seq, pos, e) == SubSeq(seq, 1, pos - 1) \o <<e>> \o SubSeq(seq, pos, Len(seq))

\* tag lists of k tags, at most one of them outside SmallTags
TagLists(k, n) ==
    {InsertAt(base, pos, e) :
        base \in [1..(k - 1) -> TagEntries(SmallTags)],
        pos \in 1..k,
        e \in TagEntries(TagNames(n))}

InitVersion ==
    /\ PipeIdle
    /\ NameIdle
    /\ \/ tags = <<>>
       \/ \E k \in 1..MaxTags : tags \in TagLists(k, MaxTagLen)
    /\ newTag = Pending

AutoVersionStep ==
    /\ newTag = Pending
    /\ newTag' = AutoVersion(DefaultTag, TRUE, tags)
    /\ UNCHANGED tags
    /\ UNCHANGED <<pipeVars, nameVars>>

NextVersion == AutoVersionStep

SpecVersion == InitVersion /\ [][NextVersion]_vars

(***************************************************************************)
(* Properties of run_pipeline (specification Spec)                         *)
(***************************************************************************)
Invoked(c) == Count(calls, c) > 0

\* a remote URL, no local path and an image name were given
RemoteOnly == Truthy(repo_url) /\ ~Truthy(local_path) /\ Truthy(image_name)

\* the client connected and login succeeded or was skipped
AuthPassed == outcome["connect"] = "ok" /\ outcome["login"] \in {"ok", "skipped"}

\* C1 as stated: every terminated run given a remote URL, no local path and an
\* image name has created exactly one temporary directory, cloned exactly once
\* and removed that directory exactly once, whatever login did.
C1_Original ==
    (Terminated /\ RemoteOnly) =>
        /\ Len(mkdtempLog) = 1
        /\ Count(calls, "clone") = 1
        /\ rmtreeLog = mkdtempLog

\* C1 amended: such a run, when the client connects and login succeeds or is
\* skipped, has at termination created exactly one temporary directory, cloned
\* exactly once and removed exactly that directory exactly once, whatever
\* clone, build and push did (exceptions included); when the connection or the
\* login fails it has created, cloned and removed nothing.  At no time is more
\* than one directory created or anything removed that was not created.
C1_TempDirOnceAfterAuth ==
    /\ Len(mkdtempLog) <= 1
    /\ Len(rmtreeLog) <= Len(mkdtempLog)
    /\ (Terminated /\ RemoteOnly) =>
          IF AuthPassed
          THEN /\ Len(mkdtempLog) = 1
               /\ Count(calls, "mkdtemp") = 1
               /\ Count(calls, "clone") = 1
               /\ Count(calls, "rmtree") = 1
               /\ rmtreeLog = mkdtempLog
          ELSE /\ mkdtempLog = <<>>
               /\ ~Invoked("clone")
               /\ rmtreeLog = <<>>

C1_Witness ==
    /\ Terminated
    /\ RemoteOnly
    /\ AuthPassed
    /\ outcome["build"] = "raise"
    /\ mkdtempLog = <<TMP>>
    /\ rmtreeLog = <<TMP>>

\* C2: a run given a local path never clones, never creates a temporary
\* directory and never removes anything, at any point of any exit path, and
\* the path handed to the build collaborator is that local path.
C2_LocalPathUntouched ==
    (entry # "none" /\ Truthy(local_path)) =>
        /\ ~Invoked("clone")
        /\ ~Invoked("mkdtemp")
        /\ mkdtempLog = <<>>
        /\ ~Invoked("rmtree")
        /\ rmtreeLog = <<>>
        /\ Invoked("build") => buildContext = local_path

C2_Witness ==
    /\ Terminated
    /\ Truthy(local_path)
    /\ Truthy(repo_url)
    /\ Invoked("build")
    /\ buildContext = local_path
    /\ outcome["push"] = "fail"
    /\ rmtreeLog = <<>>

\* the position of each collaborator in the order of the steps
Rank(c) ==
    CASE c = "from_env" -> 0
      [] c = "login" -> 1
      [] c = "mkdtemp" -> 2
      [] c = "clone" -> 3
      [] c = "build" -> 4
      [] c = "push" -> 5
      [] c = "rmtree" -> 6

StepRank(s) ==
    CASE s = "connect" -> 0
      [] s = "login" -> 1
      [] s = "context" -> 2
      [] s = "build" -> 3
      [] s = "push" -> 4

\* the collaborators of a step
StepCalls(s) ==
    CASE s = "connect" -> {"from_env"}
      [] s = "login" -> {"login"}
      [] s = "context" -> {"mkdtemp", "clone"}
      [] s = "build" -> {"build"}
      [] s = "push" -> {"push"}

\* the step reported an error that run_pipeline turns into return False
StepFailed(s) == outcome[s] \in {"fail", "nosource", "nodockerfile"}

StepPassed(s) == outcome[s] \in {"ok", "skipped", "local"}

\* C3: collaborators are invoked at most once each and in the order of the
\* steps; a step's collaborator is invoked only if every earlier step passed;
\* a failed step ends the run with result False and no later step is run or
\* its collaborator invoked; the result is True only if push was invoked and
\* succeeded (and main exits 0 only then).
C3_StepOrder ==
    /\ \A i, j \in 1..Len(calls) : i < j => Rank(calls[i]) < Rank(calls[j])
    /\ \A s \in Steps :
          (\E c \in StepCalls(s) : Invoked(c)) =>
              \A e \in Steps : StepRank(e) < StepRank(s) => StepPassed(e)
    /\ \A s \in Steps :
          (StepFailed(s) \/ outcome[s] = "raise") =>
              /\ result = (IF StepFailed(s) THEN "False" ELSE "raised")
              /\ pc \in {"finally", "returned", "done"}
              /\ \A t \in Steps :
                    StepRank(t) > StepRank(s) =>
                        /\ outcome[t] = "none"
                        /\ \A c \in StepCalls(t) : ~Invoked(c)
    /\ result = "True" =>
          /\ Count(calls, "push") = 1
          /\ outcome["push"] = "ok"
          /\ \A s \in Steps : StepPassed(s)
    /\ exitCode = 0 => result = "True"

C3_Witness ==
    /\ Terminated
    /\ outcome["build"] = "fail"
    /\ Invoked("build")
    /\ ~Invoked("push")
    /\ result = "False"

\* C4: when build_image finds no Dockerfile, client.images.build and push are
\* never invoked, the run returns False instead of raising, and once the run
\* has terminated every temporary directory it created has been removed.
C4_MissingDockerfile ==
    dockerfile = "missing" =>
        /\ ~Invoked("build")
        /\ ~Invoked("push")
        /\ result = "False"
        /\ Terminated => (rmtreeLog = mkdtempLog /\ Len(rmtreeLog) <= 1)

C4_Witness ==
    /\ Terminated
    /\ dockerfile = "missing"
    /\ mkdtempLog = <<TMP>>
    /\ rmtreeLog = <<TMP>>
    /\ result = "False"

\* no image name, or neither a repository URL nor a local path
ConfigError ==
    \/ ~Truthy(image_name)
    \/ (~Truthy(repo_url) /\ ~Truthy(local_path))

\* C5 as stated: a run with a configuration error makes no collaborator call
\* at all (no client connection, login, clone, build or push) and ends in
\* failure.
C5_ConfigErrorBeforeCalls ==
    (entry # "none" /\ ConfigError) =>
        /\ calls = <<>>
        /\ Terminated => (result # "True" /\ exitCode # 0)

\* C9: login is invoked only with both a username and a password present and,
\* once the AUTHENTICATE step is over, exactly then; a skipped login lets the
\* run go on to PREPARE_CONTEXT; a failed login ends the run with False, no
\* temporary directory and no clone, build or push.
C9_LoginIffCredentials ==
    /\ Invoked("login") => (Truthy(username) /\ Truthy(password))
    /\ outcome["login"] # "none" =>
          (Invoked("login") <=> (Truthy(username) /\ Truthy(password)))
    /\ outcome["login"] = "skipped" =>
          /\ ~Invoked("login")
          /\ pc = "context" \/ outcome["context"] # "none"
    /\ outcome["login"] = "fail" =>
          /\ result = "False"
          /\ mkdtempLog = <<>>
          /\ \A c \in {"mkdtemp", "clone", "build", "push"} : ~Invoked(c)
          /\ pc = "done" => exitCode = 1

C9_Witness ==
    /\ Terminated
    /\ Truthy(username)
    /\ password = <<>>
    /\ outcome["login"] = "skipped"
    /\ outcome["context"] = "ok"
    /\ ~Invoked("login")

\* C10: no chunk is consumed and no line relayed after a chunk with an error;
\* consuming such a chunk fails the push step and the run at once; the step
\* succeeds only at the end of a stream without any error chunk.
C10_PushStopsAtFirstError ==
    /\ \A i \in 1..(Len(consumed) - 1) : ~consumed[i].error
    /\ \A k \in 1..Len(relayed) :
          /\ relayed[k].chunk <= Len(consumed)
          /\ \A j \in 1..(k - 1) : relayed[j].line # "error"
    /\ (Len(consumed) > 0 /\ consumed[Len(consumed)].error) =>
          /\ outcome["push"] = "fail"
          /\ result = "False"
          /\ relayed[Len(relayed)] = [line |-> "error", chunk |-> Len(consumed)]
          /\ pc = "done" => exitCode = 1
    /\ outcome["push"] = "ok" =>
          /\ \A i \in 1..Len(consumed) : ~consumed[i].error
          /\ result = "True"

C10_Witness ==
    /\ Terminated
    /\ Len(consumed) = 2
    /\ consumed[1].status
    /\ consumed[2].status
    /\ consumed[2].error
    /\ Len(relayed) = 3
    /\ result = "False"

(***************************************************************************)
(* Properties of infer_image_name (specification SpecName)                 *)
(***************************************************************************)
\* C7: for scheme://host/owner/repo and git@host:owner/repo, with or without
\* a trailing .git, infer_image_name returns owner/repo.
C7_OwnerRepo ==
    (inferred # Pending /\ shape.kind \in {"http", "ssh"}) =>
        inferred = shape.owner \o <<"/">> \o shape.repo

C7_Witness ==
    /\ inferred # Pending
    /\ shape.kind = "http"
    /\ EndsWith(url, DotGit)
    /\ shape.repo = <<"r", ".", "g", "i">>
    /\ inferred = shape.owner \o <<"/">> \o shape.repo

SlashCount(u) == Cardinality({i \in 1..Len(u) : u[i] = "/"})

\* C8 as stated: a string without a colon and with at most one slash (`repo`,
\* `host/repo`) makes infer_image_name return None.
C8_Original ==
    (inferred # Pending /\ ~Contains(url, <<":">>) /\ SlashCount(url) <= 1) =>
        inferred = None

\* C8 amended: a string without a colon and without a slash makes
\* infer_image_name return None.
C8_NoSlashNoName ==
    (inferred # Pending /\ ~Contains(url, <<":">>) /\ SlashCount(url) = 0) =>
        inferred = None

C8_Witness ==
    /\ inferred = None
    /\ url = <<"a", ".", "g", "i", "t">>

(***************************************************************************)
(* Properties of the auto-version block (specification SpecVersion)        *)
(***************************************************************************)
LatestTime(ts) ==
    CHOOSE m \in {ts[i].time : i \in 1..Len(ts)} : \A i \in 1..Len(ts) : ts[i].time <= m

\* the names of the tags with the latest commit timestamp
LatestNames(ts) == {ts[i].name : i \in {j \in 1..Len(ts) : ts[j].time = LatestTime(ts)}}

StripOneV(t) == IF StartsWith(t, <<"v">>) THEN Tail(t) ELSE t

\* after one leading v: at least 3 dot-separated parts, the last an integer
Bumpable(t) ==
    LET parts == Split(StripOneV(t), ".")
    IN Len(parts) >= 3 /\ IsInt(parts[Len(parts)])

LastDot(t) == CHOOSE k \in 1..Len(t) : t[k] = "." /\ \A j \in (k + 1)..Len(t) : t[j] # "."

\* the tag with nothing but its final numeric component changed
BumpedAsSpecified(t) ==
    SubSeq(t, 1, LastDot(t)) \o IntToStr(ParseInt(SubSeq(t, LastDot(t) + 1, Len(t))) + 1)

\* C6 as stated: with tags present, the result is a tag of latest commit time
\* with only its last part incremented by 1, whenever that tag, one leading v
\* stripped, has at least 3 parts of which the last is an integer.
C6_BumpLastPartOnly ==
    (newTag # Pending /\ Len(tags) > 0 /\ \A t \in LatestNames(tags) : Bumpable(t)) =>
        newTag \in {BumpedAsSpecified(t) : t \in LatestNames(tags)}

====
